---- MODULE Spec2Model ----
(***************************************************************************)
(* Model of the currency-rate editing state machine of src/src/App.tsx:    *)
(* the rates reducer, the keyed debounce that schedules validation calls,  *)
(* the asynchronous validation handler, and the order ledger whose total   *)
(* reads the confirmed rates.                                              *)
(***************************************************************************)
EXTENDS Integers, FiniteSets, Sequences, TLC

(* ---- bounds ---- *)
MaxRate == 2
MaxTimers == 2
MaxOrders == 2
MaxPrice == 2
MaxAppEdits == 1

Rates == 1..MaxRate
OrderIds == 1..MaxOrders
Prices == 1..MaxPrice

(* ---- seed data (./utils) ---- *)
initialCurrencyRates == [k \in {"USD", "EUR"} |-> 1]

initialCurrencies == DOMAIN initialCurrencyRates

\* a currency code that is not in the static list
UnknownIds == {"XXX"}

AllIds == initialCurrencies \cup UnknownIds

initialOrders == [i \in {1} |-> [f \in {"id", "title", "price", "currency"} |->
                    CASE f = "id" -> 1
                      [] f = "title" -> "article"
                      [] f = "price" -> 1
                      [] f = "currency" -> "USD"]]

(* ---- enum CurrencyRateState ---- *)
ACCEPTED == "ACCEPTED"
DIRTY == "DIRTY"
IN_PROGRESS == "IN_PROGRESS"

VARIABLES
  rates,           \* useReducer state: id -> [rate, state, confirmedRate]
  debounceStates,  \* useRef record: id -> last timer handle (0 = undefined)
  timers,          \* host timer table: armed timeouts [handle, id, rate]
  nextHandle,      \* next handle setTimeout returns
  inflight,        \* validation calls awaiting their promise [handle, id, rate]
  orders,          \* order ledger: id -> record
  passed,          \* history: id -> rates sent to the validator in a call that returned true
  lastEdit,        \* history: id -> rate of the latest EditCurrencyRate (0 = none)
  burst,           \* history: id -> edits in the current debounce window
  fires,           \* history: id -> dispatches made by the current debounce window
  last             \* history: the last event the rates reducer processed

vars == <<rates, debounceStates, timers, nextHandle, inflight, orders,
          passed, lastEdit, burst, fires, last>>

initialCurrencyRatesState ==
  [id \in initialCurrencies |->
     [rate |-> initialCurrencyRates[id],
      confirmedRate |-> initialCurrencyRates[id],
      state |-> ACCEPTED]]

(* ---- object spread and property reads ---- *)
\* {...rec, [field]: value}
Spread(rec, field, value) ==
  [f \in DOMAIN rec \cup {field} |-> IF f = field THEN value ELSE rec[f]]

\* what spreading undefined contributes: no property
Undefined == [f \in {} |-> 0]

\* the value undefined, as read from a missing property
undefined == 0

\* prev[id], spread: a missing key contributes no property
Lookup(prev, id) == IF id \in DOMAIN prev THEN prev[id] ELSE Undefined

\* rec.field
Get(rec, field) == IF field \in DOMAIN rec THEN rec[field] ELSE undefined

\* {...prev, [id]: entry}
Put(prev, id, entry) ==
  [k \in DOMAIN prev \cup {id} |-> IF k = id THEN entry ELSE prev[k]]

\* reading a property of undefined throws: the thrown error, as a value that
\* is no rate map
TypeError == [e \in {"TypeError"} |-> TRUE]

(* ---- ratesReducer ---- *)
\* mutant: the edit writes the confirmed rate as well
EditCurrencyRateCase_SetsConfirmed(prev, payload) ==
  Put(prev, payload.id,
      Spread(Spread(Spread(Lookup(prev, payload.id), "rate", payload.rate),
                    "confirmedRate", payload.rate),
             "state", DIRTY))

\* mutant: the previous map is not spread into the result
EditCurrencyRateCase_DropsOthers(prev, payload) ==
  Put(Undefined, payload.id,
      Spread(Spread(Lookup(prev, payload.id), "rate", payload.rate),
             "state", DIRTY))

\* mutant: an edit of an entry whose validation is in progress is ignored
EditCurrencyRateCase_IgnoredInProgress(prev, payload) ==
  IF Get(Lookup(prev, payload.id), "state") = IN_PROGRESS
    THEN prev
    ELSE Put(prev, payload.id,
             Spread(Spread(Lookup(prev, payload.id), "rate", payload.rate),
                    "state", DIRTY))

EditCurrencyRateCase(prev, payload) ==
  Put(prev, payload.id,
      Spread(Spread(Lookup(prev, payload.id), "rate", payload.rate),
             "state", DIRTY))

StartIsValidRequestCase(prev, payload) ==
  Put(prev, payload, Spread(Lookup(prev, payload), "state", IN_PROGRESS))

\* mutant: the accept and reject branches are swapped
IsValidResultCase_Swapped(prev, payload) ==
  IF payload.id \notin DOMAIN prev THEN TypeError
  ELSE LET previousState == prev[payload.id]
           newRate == IF payload.result THEN Get(previousState, "confirmedRate")
                                        ELSE Get(previousState, "rate")
       IN Put(prev, payload.id,
              Spread(Spread(Spread(previousState, "state", ACCEPTED),
                            "rate", newRate),
                     "confirmedRate", newRate))

\* mutant: a rejected result leaves the edited rate in place
IsValidResultCase_NoRollback(prev, payload) ==
  IF payload.id \notin DOMAIN prev THEN TypeError
  ELSE LET previousState == prev[payload.id]
           newRate == IF payload.result THEN Get(previousState, "rate")
                                        ELSE Get(previousState, "confirmedRate")
       IN Put(prev, payload.id,
              Spread(Spread(previousState, "state", ACCEPTED),
                     "confirmedRate", newRate))

\* mutant: the result does not set the state back to ACCEPTED
IsValidResultCase_KeepsState(prev, payload) ==
  IF payload.id \notin DOMAIN prev THEN TypeError
  ELSE LET previousState == prev[payload.id]
           newRate == IF payload.result THEN Get(previousState, "rate")
                                        ELSE Get(previousState, "confirmedRate")
       IN Put(prev, payload.id,
              Spread(Spread(previousState, "rate", newRate),
                     "confirmedRate", newRate))

IsValidResultCase(prev, payload) ==
  IF payload.id \notin DOMAIN prev THEN TypeError
  ELSE LET previousState == prev[payload.id]
           newRate == IF payload.result THEN Get(previousState, "rate")
                                        ELSE Get(previousState, "confirmedRate")
       IN Put(prev, payload.id,
              Spread(Spread(Spread(previousState, "state", ACCEPTED),
                            "rate", newRate),
                     "confirmedRate", newRate))

ratesReducer(prev, action) ==
  CASE action.type = "EditCurrencyRate" -> EditCurrencyRateCase(prev, action.payload)
    [] action.type = "StartIsValidRequest" -> StartIsValidRequestCase(prev, action.payload)
    [] action.type = "IsValidResult" -> IsValidResultCase(prev, action.payload)

(* ---- host timers ---- *)
clearTimeout(tq, h) == {t \in tq : t.handle # h}

setTimeout(tq, h, id, rate) == tq \cup {[handle |-> h, id |-> id, rate |-> rate]}

(* ---- useKeyedDebounce: the returned function, as the pair of the new
        debounceStates and the new timer table ---- *)
\* mutant: the previous timeout of the key is not cleared
debouncedCall_NoClear(ds, tq, h, id, rate) ==
  [debounceStates |-> Put(ds, id, h),
   timers |-> setTimeout(tq, h, id, rate)]

\* mutant: one debounce shared by all keys, a new call clears whatever is pending
debouncedCall_Unkeyed(ds, tq, h, id, rate) ==
  [debounceStates |-> Put(ds, id, h),
   timers |-> setTimeout({}, h, id, rate)]

debouncedCall(ds, tq, h, id, rate) ==
  LET cleared == IF Get(ds, id) # undefined THEN clearTimeout(tq, ds[id]) ELSE tq
  IN [debounceStates |-> Put(ds, id, h),
      timers |-> setTimeout(cleared, h, id, rate)]

(* ---- validateRate collaborator: the results a call may resolve to ---- *)
isCurrecyRateValid(id, rate) == BOOLEAN

(* ---- ordersReducer ---- *)
ordersReducer(prev, action) ==
  CASE action.type = "Add" ->
         [i \in DOMAIN prev \cup {action.payload["id"]} |->
            IF i = action.payload["id"] THEN action.payload ELSE prev[i]]
    [] action.type = "EditPrice" ->
         [i \in DOMAIN prev \cup {action.payload.id} |->
            IF i = action.payload.id
              THEN Spread(Lookup(prev, i), "price", action.payload.value)
              ELSE prev[i]]
    [] action.type = "EditCurrency" ->
         [i \in DOMAIN prev \cup {action.payload.id} |->
            IF i = action.payload.id
              THEN Spread(Lookup(prev, i), "currency", action.payload.value)
              ELSE prev[i]]
    [] OTHER -> prev

getRandomOrder(id, price, currency) ==
  [f \in {"id", "title", "price", "currency"} |->
     CASE f = "id" -> id
       [] f = "title" -> "article"
       [] f = "price" -> price
       [] f = "currency" -> currency]

(* ---- consumers of the rates ---- *)
getBaseCurrencyPrice(price, currencyRate) == price * currencyRate

\* .reduce((a, b) => a + b, 0) over the mapped prices
RECURSIVE SumOver(_, _)
SumOver(ids, price) ==
  IF ids = {} THEN 0
  ELSE LET i == CHOOSE x \in ids : TRUE
       IN price[i] + SumOver(ids \ {i}, price)

\* mutant: the total reads the raw rate
OrderTotalOf_RawRate(os, rs) ==
  SumOver(DOMAIN os,
          [i \in DOMAIN os |->
             getBaseCurrencyPrice(os[i]["price"], rs[os[i]["currency"]].rate)])

OrderTotalOf(os, rs) ==
  SumOver(DOMAIN os,
          [i \in DOMAIN os |->
             getBaseCurrencyPrice(os[i]["price"], rs[os[i]["currency"]].confirmedRate)])

OrderTotal == OrderTotalOf(orders, rates)

OrderlinePriceOf(os, rs, i) ==
  getBaseCurrencyPrice(os[i]["price"], rs[os[i]["currency"]].confirmedRate)

(* ---- state machine ---- *)
NoEvent == [type |-> "none", id |-> "", handle |-> 0, rate |-> 0, result |-> FALSE]

Init ==
  /\ rates = initialCurrencyRatesState
  /\ debounceStates = [id \in initialCurrencies |-> 0]
  /\ timers = {}
  /\ nextHandle = 1
  /\ inflight = {}
  /\ orders = initialOrders
  /\ passed = [id \in AllIds |-> {}]
  /\ lastEdit = [id \in AllIds |-> 0]
  /\ burst = [id \in AllIds |-> 0]
  /\ fires = [id \in AllIds |-> 0]
  /\ last = NoEvent

\* effectDispatch({type: "EditCurrencyRate", payload: {id, rate}})
EditCurrencyRate(id, rate) ==
  /\ nextHandle <= MaxTimers
  /\ LET d == debouncedCall(debounceStates, timers, nextHandle, id, rate)
     IN /\ debounceStates' = d.debounceStates
        /\ timers' = d.timers
  /\ nextHandle' = nextHandle + 1
  /\ rates' = ratesReducer(rates, [type |-> "EditCurrencyRate",
                                   payload |-> [id |-> id, rate |-> rate]])
  /\ lastEdit' = [lastEdit EXCEPT ![id] = rate]
  /\ IF \E t \in timers : t.id = id
       THEN /\ burst' = [burst EXCEPT ![id] = @ + 1]
            /\ fires' = fires
       ELSE /\ burst' = [burst EXCEPT ![id] = 1]
            /\ fires' = [fires EXCEPT ![id] = 0]
  /\ last' = [type |-> "EditCurrencyRate", id |-> id, handle |-> nextHandle,
              rate |-> rate, result |-> FALSE]
  /\ UNCHANGED <<inflight, orders, passed>>

\* the timeout expires: fn(id, rate) runs up to its await
StartIsValidRequest(t) ==
  /\ t \in timers
  /\ timers' = timers \ {t}
  /\ rates' = ratesReducer(rates, [type |-> "StartIsValidRequest", payload |-> t.id])
  /\ inflight' = inflight \cup {t}
  /\ fires' = [fires EXCEPT ![t.id] = @ + 1]
  /\ last' = [type |-> "StartIsValidRequest", id |-> t.id, handle |-> t.handle,
              rate |-> t.rate, result |-> FALSE]
  /\ UNCHANGED <<debounceStates, nextHandle, orders, passed, lastEdit, burst>>

\* mutant: a result that finds the entry edited again is dropped
IsValidResult_DropStale(c, result) ==
  /\ c \in inflight
  /\ result \in isCurrecyRateValid(c.id, c.rate)
  /\ inflight' = inflight \ {c}
  /\ IF rates[c.id].state = IN_PROGRESS
       THEN /\ rates' = ratesReducer(rates, [type |-> "IsValidResult",
                                   payload |-> [id |-> c.id, result |-> result]])
            /\ passed' = IF result THEN [passed EXCEPT ![c.id] = @ \cup {c.rate}] ELSE passed
            /\ last' = [type |-> "IsValidResult", id |-> c.id, handle |-> c.handle,
                        rate |-> c.rate, result |-> result]
       ELSE UNCHANGED <<rates, passed, last>>
  /\ UNCHANGED <<debounceStates, timers, nextHandle, orders, lastEdit, burst, fires>>

\* the validation promise resolves: fn resumes after its await
IsValidResult(c, result) ==
  /\ c \in inflight
  /\ result \in isCurrecyRateValid(c.id, c.rate)
  /\ inflight' = inflight \ {c}
  /\ rates' = ratesReducer(rates, [type |-> "IsValidResult",
                                   payload |-> [id |-> c.id, result |-> result]])
  /\ passed' = IF result THEN [passed EXCEPT ![c.id] = @ \cup {c.rate}] ELSE passed
  /\ last' = [type |-> "IsValidResult", id |-> c.id, handle |-> c.handle,
              rate |-> c.rate, result |-> result]
  /\ UNCHANGED <<debounceStates, timers, nextHandle, orders, lastEdit, burst, fires>>

\* AddOrderButton
AddOrder(id, price, currency) ==
  /\ id \notin DOMAIN orders
  /\ orders' = ordersReducer(orders, [type |-> "Add",
                                      payload |-> getRandomOrder(id, price, currency)])
  /\ UNCHANGED <<rates, debounceStates, timers, nextHandle, inflight,
                 passed, lastEdit, burst, fires, last>>

\* Orderline price input
EditPrice(id, value) ==
  /\ id \in DOMAIN orders
  /\ orders' = ordersReducer(orders, [type |-> "EditPrice",
                                      payload |-> [id |-> id, value |-> value]])
  /\ UNCHANGED <<rates, debounceStates, timers, nextHandle, inflight,
                 passed, lastEdit, burst, fires, last>>

\* Orderline currency selector
EditCurrency(id, value) ==
  /\ id \in DOMAIN orders
  /\ orders' = ordersReducer(orders, [type |-> "EditCurrency",
                                      payload |-> [id |-> id, value |-> value]])
  /\ UNCHANGED <<rates, debounceStates, timers, nextHandle, inflight,
                 passed, lastEdit, burst, fires, last>>

\* the validation promise rejects: the await throws inside fn, which has no
\* catch, so fn ends without dispatching anything
ValidationFails(c) ==
  /\ c \in inflight
  /\ inflight' = inflight \ {c}
  /\ last' = [type |-> "ValidationFailed", id |-> c.id, handle |-> c.handle,
              rate |-> c.rate, result |-> FALSE]
  /\ UNCHANGED <<rates, debounceStates, timers, nextHandle, orders,
                 passed, lastEdit, burst, fires>>

\* effectDispatch of a StartIsValidRequest or IsValidResult action as such
Dispatch(action) ==
  LET id == IF action.type = "StartIsValidRequest" THEN action.payload
                                                   ELSE action.payload.id
      next == ratesReducer(rates, action)
  IN /\ action.type # "EditCurrencyRate"
     /\ IF next = TypeError
          THEN /\ rates' = rates
               /\ last' = [NoEvent EXCEPT !.type = "TypeError", !.id = id]
          ELSE /\ rates' = next
               /\ last' = [NoEvent EXCEPT !.type = action.type, !.id = id]
     /\ UNCHANGED <<debounceStates, timers, nextHandle, inflight, orders,
                    passed, lastEdit, burst, fires>>

RatesNext ==
  \/ \E id \in initialCurrencies, rate \in Rates : EditCurrencyRate(id, rate)
  \/ \E t \in timers : StartIsValidRequest(t)
  \/ \E c \in inflight, result \in BOOLEAN : IsValidResult(c, result)

OrdersNext ==
  \/ \E id \in OrderIds, price \in Prices, currency \in initialCurrencies :
       AddOrder(id, price, currency)
  \/ \E id \in OrderIds, value \in Prices : EditPrice(id, value)
  \/ \E id \in OrderIds, value \in initialCurrencies : EditCurrency(id, value)

\* a rate edit of the application run, capped separately
AppEdit(id, rate) ==
  /\ nextHandle <= MaxAppEdits
  /\ EditCurrencyRate(id, rate)

Next ==
  \/ \E id \in initialCurrencies, rate \in Rates : AppEdit(id, rate)
  \/ \E t \in timers : StartIsValidRequest(t)
  \/ \E c \in inflight, result \in BOOLEAN : IsValidResult(c, result)
  \/ OrdersNext

\* the rate validation state machine on its own (the ledger never touches it)
Spec == Init /\ [][RatesNext]_vars

\* the rate validation state machine fed events that name an unknown currency
\* code; a reducer that throws while rendering takes the application down
Mounted == last.type # "TypeError"

AnyIdEdit(id, rate) == Mounted /\ EditCurrencyRate(id, rate)

AnyIdTimer(t) == Mounted /\ StartIsValidRequest(t)

AnyIdResult(c, result) == Mounted /\ IsValidResult(c, result)

AnyIdDispatch(action) == Mounted /\ Dispatch(action)

AnyIdNext ==
  \/ \E id \in AllIds, rate \in Rates : AnyIdEdit(id, rate)
  \/ \E t \in timers : AnyIdTimer(t)
  \/ \E c \in inflight, result \in BOOLEAN : AnyIdResult(c, result)
  \/ \E id \in UnknownIds :
       AnyIdDispatch([type |-> "StartIsValidRequest", payload |-> id])
  \/ \E id \in UnknownIds, result \in BOOLEAN :
       AnyIdDispatch([type |-> "IsValidResult",
                      payload |-> [id |-> id, result |-> result]])

AnyIdSpec == Init /\ [][AnyIdNext]_vars

\* the application with ledger edits that may name an id the ledger does not
\* hold; Orders and OrderTotal throw while rendering an order without a
\* currency (currencyRates[undefined].confirmedRate), which unmounts the tree
LedgerMounted == \A i \in DOMAIN orders : "currency" \in DOMAIN orders[i]

LedgerRateEdit(id, rate) == LedgerMounted /\ AppEdit(id, rate)

LedgerTimer(t) == LedgerMounted /\ StartIsValidRequest(t)

LedgerResult(c, result) == LedgerMounted /\ IsValidResult(c, result)

LedgerAdd(id, price, currency) == LedgerMounted /\ AddOrder(id, price, currency)

DispatchEditPrice(id, value) ==
  /\ LedgerMounted
  /\ orders' = ordersReducer(orders, [type |-> "EditPrice",
                                      payload |-> [id |-> id, value |-> value]])
  /\ UNCHANGED <<rates, debounceStates, timers, nextHandle, inflight,
                 passed, lastEdit, burst, fires, last>>

DispatchEditCurrency(id, value) ==
  /\ LedgerMounted
  /\ orders' = ordersReducer(orders, [type |-> "EditCurrency",
                                      payload |-> [id |-> id, value |-> value]])
  /\ UNCHANGED <<rates, debounceStates, timers, nextHandle, inflight,
                 passed, lastEdit, burst, fires, last>>

LedgerAnyIdNext ==
  \/ \E id \in initialCurrencies, rate \in Rates : LedgerRateEdit(id, rate)
  \/ \E t \in timers : LedgerTimer(t)
  \/ \E c \in inflight, result \in BOOLEAN : LedgerResult(c, result)
  \/ \E id \in OrderIds, price \in Prices, currency \in initialCurrencies :
       LedgerAdd(id, price, currency)
  \/ \E id \in OrderIds, value \in Prices : DispatchEditPrice(id, value)
  \/ \E id \in OrderIds, value \in initialCurrencies : DispatchEditCurrency(id, value)

LedgerAnyIdSpec == Init /\ [][LedgerAnyIdNext]_vars

(* ---- CurrencyRateComponent: the rate input is disabled while the entry's
        validation is in progress ---- *)
\* mutant: the input is never disabled
isDisabled_Never(currencyRate) == FALSE

isDisabled(currencyRate) == currencyRate.state = IN_PROGRESS

\* NumberInput onChange -> setCurrencyRate -> dispatch EditCurrencyRate
UIEdit(id, rate) ==
  /\ ~isDisabled(rates[id])
  /\ EditCurrencyRate(id, rate)

\* the rate validation state machine driven through the rate inputs only
UINext ==
  \/ \E id \in initialCurrencies, rate \in Rates : UIEdit(id, rate)
  \/ \E t \in timers : StartIsValidRequest(t)
  \/ \E c \in inflight, result \in BOOLEAN : IsValidResult(c, result)

UISpec == Init /\ [][UINext]_vars

\* the rate validation state machine with a validator whose call may fail
FailNext ==
  \/ \E id \in initialCurrencies, rate \in Rates : EditCurrencyRate(id, rate)
  \/ \E t \in timers : StartIsValidRequest(t)
  \/ \E c \in inflight, result \in BOOLEAN : IsValidResult(c, result)
  \/ \E c \in inflight : ValidationFails(c)

FailSpec == Init /\ [][FailNext]_vars

\* the rate validation state machine together with the order ledger
AppSpec == Init /\ [][Next]_vars

\* the host fires every armed timeout and every validation promise settles
Fairness ==
  /\ \A h \in 1..MaxTimers :
       WF_vars(\E t \in timers : t.handle = h /\ StartIsValidRequest(t))
  /\ \A h \in 1..MaxTimers :
       WF_vars(\E c \in inflight, result \in BOOLEAN :
                 c.handle = h /\ IsValidResult(c, result))

FairSpec == Spec /\ Fairness

(* ---- C1: an entry whose state is ACCEPTED has rate = confirmedRate ---- *)
C1_AcceptedImpliesConfirmed ==
  \A id \in DOMAIN rates :
    rates[id].state = ACCEPTED => rates[id].rate = rates[id].confirmedRate

C1_Witness ==
  /\ last.type = "IsValidResult"
  /\ ~last.result
  /\ lastEdit[last.id] # rates[last.id].rate
  /\ rates[last.id].state = ACCEPTED

(* ---- C2: at most one validation call is outstanding per currency code ---- *)
C2_AtMostOneOutstanding ==
  \A id \in initialCurrencies : Cardinality({c \in inflight : c.id = id}) <= 1

(* ---- C3: confirmedRate is the seed rate or a rate that was sent to the
        validator for that currency in a call that returned true ---- *)
C3_ConfirmedWasValidated ==
  \A id \in initialCurrencies :
    \/ rates[id].confirmedRate = initialCurrencyRates[id]
    \/ rates[id].confirmedRate \in passed[id]

(* ---- C4: an accepted result confirms the rate the entry holds at resolution
        time, leaves rate unchanged and sets the state to ACCEPTED ---- *)
C4_AcceptConfirmsCurrentRate ==
  [][\A c \in inflight :
       IsValidResult(c, TRUE) =>
         /\ rates'[c.id].confirmedRate = rates[c.id].rate
         /\ rates'[c.id].rate = rates[c.id].rate
         /\ rates'[c.id].state = ACCEPTED]_vars

\* the race: the confirmed rate is the later edit, not the rate that was sent
C4_Witness ==
  /\ last.type = "IsValidResult"
  /\ last.result
  /\ rates[last.id].confirmedRate = lastEdit[last.id]
  /\ rates[last.id].confirmedRate # last.rate
  /\ rates[last.id].state = ACCEPTED

(* ---- C5: a rejected result sets rate back to the confirmedRate held before,
        leaves confirmedRate unchanged and sets the state to ACCEPTED ---- *)
C5_RejectRollsBack ==
  [][\A c \in inflight :
       IsValidResult(c, FALSE) =>
         /\ rates'[c.id].rate = rates[c.id].confirmedRate
         /\ rates'[c.id].confirmedRate = rates[c.id].confirmedRate
         /\ rates'[c.id].state = ACCEPTED]_vars

\* an edit made after the rejected call was issued is discarded as well
C5_Witness ==
  /\ last.type = "IsValidResult"
  /\ ~last.result
  /\ lastEdit[last.id] # last.rate
  /\ lastEdit[last.id] # rates[last.id].rate
  /\ rates[last.id].rate = rates[last.id].confirmedRate

(* ---- C6: confirmedRate of a key changes only in an IsValidResult step for
        that key; EditCurrencyRate and StartIsValidRequest leave every
        confirmedRate unchanged ---- *)
C6_ConfirmedChangesOnlyOnResult ==
  [][/\ \A id \in initialCurrencies :
          rates'[id].confirmedRate # rates[id].confirmedRate =>
            \E c \in inflight, result \in BOOLEAN :
              c.id = id /\ IsValidResult(c, result)
     /\ ( \/ \E id \in initialCurrencies, rate \in Rates : EditCurrencyRate(id, rate)
          \/ \E t \in timers : StartIsValidRequest(t) ) =>
            \A id \in initialCurrencies :
              rates'[id].confirmedRate = rates[id].confirmedRate]_vars

\* an edit, then its validation request, have acted and the confirmed rate
\* still is the seed rate
C6_Witness ==
  /\ last.type = "StartIsValidRequest"
  /\ rates[last.id].rate # rates[last.id].confirmedRate
  /\ rates[last.id].confirmedRate = initialCurrencyRates[last.id]

(* ---- C7: the edits of one debounce window of a key produce exactly one
        validation dispatch, which carries the rate of the last edit; a
        superseded schedule is never dispatched ---- *)
C7_Coalescing ==
  /\ [](\A id \in initialCurrencies :
          /\ fires[id] <= 1
          /\ Cardinality({t \in timers : t.id = id}) <= 1
          /\ (burst[id] >= 1 /\ ~(\E t \in timers : t.id = id)) => fires[id] = 1)
  /\ [][\A t \in timers :
          StartIsValidRequest(t) =>
            /\ t.handle = debounceStates[t.id]
            /\ t.rate = lastEdit[t.id]]_vars

\* two edits in one window, then the one dispatch, carrying the second rate
C7_Witness ==
  /\ last.type = "StartIsValidRequest"
  /\ burst[last.id] >= 2
  /\ fires[last.id] = 1
  /\ last.rate = lastEdit[last.id]
  /\ last.handle = debounceStates[last.id]

(* ---- C8: an edit of key A leaves the pending timer of every other key B
        armed and untouched, and every armed timer carries the latest payload
        of its own key ---- *)
C8_KeysIndependent ==
  /\ [][\A id \in initialCurrencies, rate \in Rates :
          EditCurrencyRate(id, rate) =>
            \A b \in initialCurrencies \ {id} :
              /\ debounceStates'[b] = debounceStates[b]
              /\ {t \in timers' : t.id = b} = {t \in timers : t.id = b}]_vars
  /\ [](\A t \in timers : t.rate = lastEdit[t.id] /\ t.id \in initialCurrencies)

\* key A was edited while the timer of key B was armed, and B's is still armed
C8_Witness ==
  /\ last.type = "EditCurrencyRate"
  /\ \E t \in timers :
       /\ t.id # last.id
       /\ t.handle < last.handle
       /\ t.rate = lastEdit[t.id]

C10_TotalReadsConfirmedRate ==
  [][/\ (last' # last /\ last'.type \in {"EditCurrencyRate", "StartIsValidRequest"}) =>
            /\ OrderTotal' = OrderTotal
            /\ \A i \in DOMAIN orders :
                 OrderlinePriceOf(orders', rates', i) = OrderlinePriceOf(orders, rates, i)
     /\ (orders' = orders /\ ~(last' # last /\ last'.type = "IsValidResult")) =>
            OrderTotal' = OrderTotal]_vars

\* the currency of an order was edited and its request started: the raw rate
\* differs from the confirmed rate the total is computed from
C10_Witness ==
  /\ last.type = "StartIsValidRequest"
  /\ rates[last.id].rate # rates[last.id].confirmedRate
  /\ \E i \in DOMAIN orders : orders[i]["currency"] = last.id
  /\ OrderTotal = OrderTotalOf(orders, initialCurrencyRatesState)

(* ---- C11: after any sequence of events on known currency codes the key set
        of the rate map equals the static currency list ---- *)
C11_KeySetFixed ==
  DOMAIN rates = initialCurrencies

\* an edit, a request and a result have all been applied
C11_Witness ==
  /\ last.type = "IsValidResult"
  /\ nextHandle > MaxTimers
  /\ DOMAIN rates = {"USD", "EUR"}

(* ---- C12: an event whose id is not a key of the rate map signals an error
        and creates no entry ---- *)
C12_UnknownIdSignalled ==
  /\ DOMAIN rates \subseteq initialCurrencies
  /\ last.id \in UnknownIds => last.type = "TypeError"

(* ---- C13: a validation call that fails is treated as a rejection: the rate
        is reverted to confirmedRate and the state becomes ACCEPTED ---- *)
C13_FailureTreatedAsRejection ==
  last.type = "ValidationFailed" =>
    /\ rates[last.id].state = ACCEPTED
    /\ rates[last.id].rate = rates[last.id].confirmedRate

(* ---- C14: when StartIsValidRequest is applied for a key, the rate handed to
        the validator equals the entry's rate at that moment ---- *)
C14_ValidatesCurrentRate ==
  last.type = "StartIsValidRequest" => last.rate = rates[last.id].rate

(* ---- C15: EditCurrencyRate on a known id sets that entry's rate to the new
        rate and its state to DIRTY whatever the prior state, and leaves every
        other entry unchanged; StartIsValidRequest changes only the state of
        its entry, to IN_PROGRESS ---- *)
C15_EditAndStartEffects ==
  [][/\ \A id \in initialCurrencies, rate \in Rates :
          EditCurrencyRate(id, rate) =>
            /\ rates'[id].rate = rate
            /\ rates'[id].state = DIRTY
            /\ \A k \in DOMAIN rates \ {id} : rates'[k] = rates[k]
     /\ \A t \in timers :
          StartIsValidRequest(t) =>
            /\ rates'[t.id].state = IN_PROGRESS
            /\ rates'[t.id].rate = rates[t.id].rate
            /\ rates'[t.id].confirmedRate = rates[t.id].confirmedRate
            /\ \A k \in DOMAIN rates \ {t.id} : rates'[k] = rates[k]]_vars

\* an edit was applied to an entry whose validation was in progress
C15_Witness ==
  /\ last.type = "EditCurrencyRate"
  /\ rates[last.id].state = DIRTY
  /\ rates[last.id].rate = last.rate
  /\ \E c \in inflight : c.id = last.id /\ c.handle = last.handle - 1

(* ---- C16: EditPrice or EditCurrency for an id that is not a key of the
        ledger adds no key and no record that lacks id, title, price or
        currency ---- *)
C16_MissingOrderRejected ==
  \A i \in DOMAIN orders :
    /\ DOMAIN orders[i] = {"id", "title", "price", "currency"}
    /\ orders[i]["id"] = i

(* ---- C17: an entry whose state is ACCEPTED has no pending debounce timer
        and no validation call in flight ---- *)
C17_AcceptedIsSettled ==
  \A id \in initialCurrencies :
    rates[id].state = ACCEPTED =>
      /\ ~(\E t \in timers : t.id = id)
      /\ ~(\E c \in inflight : c.id = id)

(* ---- C18: once edits have stopped, every currency eventually reaches and
        stays in a state with no pending timer, no validation in flight,
        state ACCEPTED and rate = confirmedRate ---- *)
Quiescent ==
  /\ timers = {}
  /\ inflight = {}
  /\ \A id \in initialCurrencies :
       /\ rates[id].state = ACCEPTED
       /\ rates[id].rate = rates[id].confirmedRate

C18_Quiescence == <>[]Quiescent

\* every edit the run allows has been made and answered
C18_Witness ==
  /\ Quiescent
  /\ nextHandle > MaxTimers
  /\ last.type = "IsValidResult"
  /\ \E id \in initialCurrencies : rates[id].confirmedRate # initialCurrencyRates[id]

(* ---- C19: when edits reach a key only while its input is enabled, at most
        one validation call is in flight per key, a call in flight implies
        state IN_PROGRESS, and an accepted result confirms the rate that was
        sent to the validator ---- *)
C19_GuardedEdits ==
  /\ \A id \in initialCurrencies : Cardinality({c \in inflight : c.id = id}) <= 1
  /\ \A c \in inflight : rates[c.id].state = IN_PROGRESS
  /\ (last.type = "IsValidResult" /\ last.result) =>
       rates[last.id].confirmedRate = last.rate

\* a second edit of the key was validated and accepted after the first cycle
C19_Witness ==
  /\ last.type = "IsValidResult"
  /\ last.result
  /\ last.handle = MaxTimers
  /\ rates[last.id].confirmedRate = last.rate
  /\ last.rate # initialCurrencyRates[last.id]
  /\ inflight = {}
====
